---------------------------- MODULE Spec2Model ----------------------------
(***************************************************************************)
(* Model of the driver's solver DTO layer of cow-services:                 *)
(*   - Auction::new        (crates/driver/src/infra/solver/dto/auction.rs) *)
(*     encodes the auction and the liquidity for the solvers;              *)
(*   - Solutions::into_domain                                              *)
(*                         (crates/driver/src/infra/solver/dto/solution.rs)*)
(*     decodes a solver response into domain solutions.                    *)
(* Both are pure functions: they are operators here, applied by one action *)
(* each to inputs that the initial states draw from bounded sets.          *)
(*                                                                         *)
(* eth::U256 is modelled as the range 0..U256_MAX.  An Option is a         *)
(* sequence of length 0 (None) or 1 (Some).  An f64 factor is the exact    *)
(* rational [num, den] it stands for.                                      *)
(***************************************************************************)
EXTENDS Integers, Sequences, FiniteSets, TLC

VARIABLES
    auction,               \* the competition::Auction of the round
    liquidity,             \* the round's liquidity set, &[liquidity::Liquidity]
    response,              \* the solver response, dto::Solutions
    rank_by_surplus_date,  \* Option<DateTime>, the surplus-ranking cutoff
    encoded,               \* Option of the outcome of Auction::new
    decoded,               \* Option of the outcome of Solutions::into_domain
    wire                   \* the serialized encodings of the round, one per call

vars == <<auction, liquidity, response, rank_by_surplus_date, encoded, decoded, wire>>

-----------------------------------------------------------------------------
(* Bounds of the model *)

\* the largest value of the model's eth::U256
U256_MAX == 15
\* the largest number of orders of an auction
MaxOrders == 2
\* the largest number of candidate solutions of a response
MaxSolutions == 2
\* the largest number of protocol fee policies of an order
MaxFees == 2
\* the largest number of pools of a liquidity set
MaxPools == 2
\* the largest number of times a round is encoded and serialized
MaxEncodings == 2

-----------------------------------------------------------------------------
(* Options and sequences *)

None == <<>>
Some(x) == <<x>>
IsSome(o) == Len(o) = 1

Range(s) == {s[i] : i \in 1..Len(s)}

SeqsUpTo(S, n) == UNION {[1..k -> S] : k \in 0..n}

U256 == 0..U256_MAX

-----------------------------------------------------------------------------
(* Values the inputs are drawn from *)

\* eth::H160 token addresses, ordered as the addresses are
Tokens == 1..3
WETH == 3
SolverAddress == "solver"

Sides == {"Buy", "Sell"}

\* the volume fee factors, each 0 <= f < 1
Factor(num, den) == [num |-> num, den |-> den]
Factors == {Factor(0, 1), Factor(1, 4), Factor(1, 3), Factor(1, 2), Factor(2, 3)}

Volume(factor) == [type |-> "Volume", factor |-> factor]
Surplus == [type |-> "Surplus", factor |-> Factor(1, 2)]

FeePolicies == {Volume(f) : f \in Factors} \cup {Surplus}


-----------------------------------------------------------------------------
(* util::conv: helpers of the driver that Auction::new calls *)

\* U256Ext::apply_factor: the amount times the factor, rounded down; no value
\* when the factor is not a finite non-negative number or the product does not
\* fit an eth::U256.
apply_factor(amount, factor) ==
    IF factor.den <= 0 \/ factor.num < 0
    THEN None
    ELSE LET product == (amount * factor.num) \div factor.den
         IN  IF product > U256_MAX THEN None ELSE Some(product)

\* a faulty variant: the fallback saturates instead of defaulting
unwrap_or_max(option) == IF IsSome(option) THEN option[1] ELSE U256_MAX
\* Option::unwrap_or_default on an Option<U256>
unwrap_or_default(option) == IF IsSome(option) THEN option[1] ELSE 0

\* competition::Order::available: the unfilled remainder of the order; the
\* model's orders carry their available amounts.
available(order, weth) ==
    [sell |-> order.sell, buy |-> order.buy, user_fee |-> order.user_fee]

RECURSIVE Log10(_)
Log10(n) == IF n < 10 THEN 0 ELSE 1 + Log10(n \div 10)
\* rational_to_big_decimal, for a rational whose denominator is a power of ten
rational_to_big_decimal(r) == [digits |-> r.num, scale |-> Log10(r.den)]

-----------------------------------------------------------------------------
(* Auction::new: the fee adjustment of an order's limits *)

\* a faulty variant: factor / (1.0 + factor)
reduce_factor_share(factor) == [num |-> factor.num, den |-> factor.den + factor.num]
\* 1.0 / (1.0 + factor)
reduce_factor(factor) == [num |-> factor.den, den |-> factor.den + factor.num]
\* 1.0 / (1.0 - factor)
increase_factor(factor) == [num |-> factor.den, den |-> factor.den - factor.num]

\* protocol_fees.first()
first(s) == IF Len(s) = 0 THEN None ELSE Some(s[1])

\* a faulty variant: the arms of the match exchanged
adjust_side_swapped(order, avail, factor) ==
    IF order.side = "Sell"
    THEN [avail EXCEPT !.sell.amount =
             unwrap_or_default(apply_factor(avail.sell.amount, reduce_factor(factor)))]
    ELSE [avail EXCEPT !.buy.amount =
             unwrap_or_default(apply_factor(avail.buy.amount, increase_factor(factor)))]

\* a faulty variant: both amounts adjusted on either side
adjust_side_both(order, avail, factor) ==
    [avail EXCEPT
        !.sell.amount =
            unwrap_or_default(apply_factor(avail.sell.amount, reduce_factor(factor))),
        !.buy.amount =
            unwrap_or_default(apply_factor(avail.buy.amount, increase_factor(factor)))]

\* a faulty variant: the user fee reduced along with the side's amount
adjust_side_and_fee(order, avail, factor) ==
    IF order.side = "Buy"
    THEN [avail EXCEPT
             !.sell.amount =
                 unwrap_or_default(apply_factor(avail.sell.amount, reduce_factor(factor))),
             !.user_fee =
                 unwrap_or_default(apply_factor(avail.user_fee, reduce_factor(factor)))]
    ELSE [avail EXCEPT
             !.buy.amount =
                 unwrap_or_default(apply_factor(avail.buy.amount, increase_factor(factor))),
             !.user_fee =
                 unwrap_or_default(apply_factor(avail.user_fee, reduce_factor(factor)))]

\* the side's arm of the match: which amount is adjusted and by which factor
adjust_side(order, avail, factor) ==
    IF order.side = "Buy"
    THEN \* reduce sell amount by factor
         [avail EXCEPT !.sell.amount =
             unwrap_or_default(apply_factor(avail.sell.amount, reduce_factor(factor)))]
    ELSE \* increase buy amount by factor
         [avail EXCEPT !.buy.amount =
             unwrap_or_default(apply_factor(avail.buy.amount, increase_factor(factor)))]

\* a faulty variant: the first volume policy of the list, wherever it stands
adjust_for_any_volume_fee(order, avail) ==
    LET fees == order.protocol_fees
        volume == {i \in 1..Len(fees) : fees[i].type = "Volume"}
    IN  IF volume = {} THEN avail
        ELSE adjust_side(order, avail,
                         fees[CHOOSE i \in volume : \A j \in volume : i <= j].factor)

\* if let Some(FeePolicy::Volume { factor }) = order.protocol_fees.first()
adjust_for_fees(order, avail) ==
    LET policy == first(order.protocol_fees)
    IN  IF IsSome(policy) /\ policy[1].type = "Volume"
        THEN adjust_side(order, avail, policy[1].factor)
        ELSE avail

\* the closure of orders.iter().map(..): one dto::Order per auction order
encode_order(order, weth) ==
    LET avail == adjust_for_fees(order, available(order, weth))
    IN  [uid                |-> order.uid,
         sell_token         |-> avail.sell.token,
         buy_token          |-> avail.buy.token,
         sell_amount        |-> avail.sell.amount,
         buy_amount         |-> avail.buy.amount,
         fee_amount         |-> avail.user_fee,
         kind               |-> order.side,
         partially_fillable |-> order.partial,
         class              |-> order.kind]

\* a faulty variant: the orders shown with a zero amount are left out
encode_orders_nonzero(orders, weth) ==
    LET nonzero(shown) == shown.sell_amount # 0 /\ shown.buy_amount # 0
    IN  SelectSeq([i \in 1..Len(orders) |-> encode_order(orders[i], weth)], nonzero)

\* auction.orders().iter().map(..).collect()
encode_orders(orders, weth) == [i \in 1..Len(orders) |-> encode_order(orders[i], weth)]

-----------------------------------------------------------------------------
(* Auction::new: the token map and the liquidity *)

\* the entries of a sequence of <<key, value>> pairs as a map collects them:
\* the value of a key is the one of its last pair
LastValue(pairs, key) ==
    LET last == CHOOSE i \in 1..Len(pairs) :
                    /\ pairs[i][1] = key
                    /\ \A j \in (i + 1)..Len(pairs) : pairs[j][1] # key
    IN  pairs[last][2]

Keys(pairs) == {pairs[i][1] : i \in 1..Len(pairs)}

RECURSIVE Ascending(_)
Ascending(S) ==
    IF S = {} THEN <<>>
    ELSE LET least == CHOOSE x \in S : \A y \in S : x <= y
         IN  <<least>> \o Ascending(S \ {least})

RECURSIVE FirstOccurrences(_, _)
FirstOccurrences(pairs, seen) ==
    IF Len(pairs) = 0 THEN <<>>
    ELSE IF pairs[1][1] \in seen THEN FirstOccurrences(Tail(pairs), seen)
    ELSE <<pairs[1][1]>> \o FirstOccurrences(Tail(pairs), seen \cup {pairs[1][1]})

\* a faulty variant: the entries in the order their keys came first
InsertionOrdered(pairs) ==
    LET keys == FirstOccurrences(pairs, {})
    IN  [i \in 1..Len(keys) |-> <<keys[i], LastValue(pairs, keys[i])>>]

\* collect() into a BTreeMap: the entries in ascending key order
BTreeMap(pairs) ==
    LET keys == Ascending(Keys(pairs))
    IN  [i \in 1..Len(keys) |-> <<keys[i], LastValue(pairs, keys[i])>>]

\* collect() into an IndexMap: the entries in the order their keys came first
IndexMap(pairs) ==
    LET keys == FirstOccurrences(pairs, {})
    IN  [i \in 1..Len(keys) |-> <<keys[i], LastValue(pairs, keys[i])>>]

\* Token::default()
DefaultToken ==
    [decimals |-> None, symbol |-> None, reference_price |-> None,
     available_balance |-> 0, trusted |-> FALSE]

\* auction.tokens().iter().map(..).collect(): a HashMap, a function on addresses
seed_tokens(tokens) ==
    LET pairs == [i \in 1..Len(tokens) |->
                     <<tokens[i].address,
                       [decimals          |-> tokens[i].decimals,
                        symbol            |-> tokens[i].symbol,
                        reference_price   |-> tokens[i].price,
                        available_balance |-> tokens[i].available_balance,
                        trusted           |-> tokens[i].trusted]>>]
    IN  [a \in Keys(pairs) |-> LastValue(pairs, a)]

\* a faulty variant: only the first token of a pool
first_pool_token(pool) == {pool.reserves[i].token : i \in 1..Len(pool.reserves) \cap {1}}
\* the tokens of a pool's reserves, the arms of the flat_map
pool_tokens(pool) == {pool.reserves[i].token : i \in 1..Len(pool.reserves)}

\* a faulty variant: tokens.insert(token, Default::default()) for every pool token
with_liquidity_tokens_reset(tokens, pools) ==
    LET extra == UNION {pool_tokens(pools[i]) : i \in 1..Len(pools)}
    IN  [a \in (DOMAIN tokens) \cup extra |->
            IF a \in extra THEN DefaultToken ELSE tokens[a]]

\* tokens.entry(token).or_insert_with(Default::default) for every pool token
with_liquidity_tokens(tokens, pools) ==
    LET extra == UNION {pool_tokens(pools[i]) : i \in 1..Len(pools)}
    IN  [a \in (DOMAIN tokens) \cup extra |->
            IF a \in DOMAIN tokens THEN tokens[a] ELSE DefaultToken]

reserve_pairs(pool) ==
    [i \in 1..Len(pool.reserves) |->
        <<pool.reserves[i].token, [balance |-> pool.reserves[i].amount]>>]

\* a faulty variant: a Swapr pool encoded with the fee of its UniswapV2 base
encode_liquidity_base_fee(pool) ==
    CASE pool.kind = "UniswapV2" ->
            [kind |-> "ConstantProduct", id |-> pool.id, address |-> pool.address,
             gas_estimate |-> pool.gas, tokens |-> BTreeMap(reserve_pairs(pool)),
             fee |-> [digits |-> 3, scale |-> 3]]
      [] pool.kind = "Swapr" ->
            [kind |-> "ConstantProduct", id |-> pool.id, address |-> pool.address,
             gas_estimate |-> pool.gas, tokens |-> BTreeMap(reserve_pairs(pool)),
             fee |-> [digits |-> 3, scale |-> 3]]
      [] pool.kind = "UniswapV3" ->
            [kind |-> "ConcentratedLiquidity", id |-> pool.id, address |-> pool.address,
             gas_estimate |-> pool.gas,
             tokens |-> [i \in 1..Len(pool.reserves) |-> pool.reserves[i].token],
             liquidity_net |-> BTreeMap(pool.liquidity_net),
             fee |-> rational_to_big_decimal(pool.fee)]
      [] pool.kind = "BalancerV2Stable" ->
            [kind |-> "Stable", id |-> pool.id, address |-> pool.address,
             gas_estimate |-> pool.gas, tokens |-> IndexMap(reserve_pairs(pool)),
             fee |-> [digits |-> pool.fee, scale |-> 18]]
      [] pool.kind = "BalancerV2Weighted" ->
            [kind |-> "WeightedProduct", id |-> pool.id, address |-> pool.address,
             gas_estimate |-> pool.gas, tokens |-> IndexMap(reserve_pairs(pool)),
             fee |-> [digits |-> pool.fee, scale |-> 18]]

\* the closure of liquidity.iter().map(..) for the kinds it implements
encode_liquidity(pool) ==
    CASE pool.kind = "UniswapV2" ->
            [kind |-> "ConstantProduct", id |-> pool.id, address |-> pool.address,
             gas_estimate |-> pool.gas, tokens |-> BTreeMap(reserve_pairs(pool)),
             fee |-> [digits |-> 3, scale |-> 3]]
      [] pool.kind = "Swapr" ->
            [kind |-> "ConstantProduct", id |-> pool.id, address |-> pool.address,
             gas_estimate |-> pool.gas, tokens |-> BTreeMap(reserve_pairs(pool)),
             fee |-> [digits |-> pool.fee, scale |-> 4]]
      [] pool.kind = "UniswapV3" ->
            [kind |-> "ConcentratedLiquidity", id |-> pool.id, address |-> pool.address,
             gas_estimate |-> pool.gas,
             tokens |-> [i \in 1..Len(pool.reserves) |-> pool.reserves[i].token],
             liquidity_net |-> BTreeMap(pool.liquidity_net),
             fee |-> rational_to_big_decimal(pool.fee)]
      [] pool.kind = "BalancerV2Stable" ->
            [kind |-> "Stable", id |-> pool.id, address |-> pool.address,
             gas_estimate |-> pool.gas, tokens |-> IndexMap(reserve_pairs(pool)),
             fee |-> [digits |-> pool.fee, scale |-> 18]]
      [] pool.kind = "BalancerV2Weighted" ->
            [kind |-> "WeightedProduct", id |-> pool.id, address |-> pool.address,
             gas_estimate |-> pool.gas, tokens |-> IndexMap(reserve_pairs(pool)),
             fee |-> [digits |-> pool.fee, scale |-> 18]]

\* liquidity::Kind::ZeroEx(_) => todo!()
has_unimplemented(pools) == \E i \in 1..Len(pools) : pools[i].kind = "ZeroEx"

Panic == [panicked |-> TRUE]

\* a faulty variant: the pools of an unimplemented kind are left out
AuctionNewSkipping(a, pools, weth) ==
    LET implemented(pool) == pool.kind # "ZeroEx"
        kept == SelectSeq(pools, implemented)
    IN  [panicked            |-> FALSE,
         id                  |-> a.id,
         tokens              |-> with_liquidity_tokens(seed_tokens(a.tokens), kept),
         orders              |-> encode_orders(a.orders, weth),
         liquidity           |-> [i \in 1..Len(kept) |-> encode_liquidity(kept[i])],
         effective_gas_price |-> a.gas_price,
         deadline            |-> a.deadline.solvers]

\* Auction::new
AuctionNew(a, pools, weth) ==
    IF has_unimplemented(pools) THEN Panic
    ELSE [panicked            |-> FALSE,
          id                  |-> a.id,
          tokens              |-> with_liquidity_tokens(seed_tokens(a.tokens), pools),
          orders              |-> encode_orders(a.orders, weth),
          liquidity           |-> [i \in 1..Len(pools) |-> encode_liquidity(pools[i])],
          effective_gas_price |-> a.gas_price,
          deadline            |-> a.deadline.solvers]

\* the orders in which a HashMap of the keys S can iterate: the order depends
\* on the map's RandomState and is any order of the keys
Orderings(S) ==
    {order \in [1..Cardinality(S) -> S] :
        \A i, j \in 1..Cardinality(S) : i # j => order[i] # order[j]}

\* #[derive(Serialize)] of Auction: the fields in their order, the token map
\* as the HashMap iterates it, the other collections as sequences
to_json(snapshot, order) ==
    [id                |-> snapshot.id,
     tokens            |-> [i \in 1..Len(order) |-> <<order[i], snapshot.tokens[order[i]]>>],
     orders            |-> snapshot.orders,
     liquidity         |-> snapshot.liquidity,
     effectiveGasPrice |-> snapshot.effective_gas_price,
     deadline          |-> snapshot.deadline]

-----------------------------------------------------------------------------
(* The domain constructors that Solutions::into_domain calls *)

Ok(value) == [ok |-> TRUE, value |-> value]
Err(error) == [ok |-> FALSE, error |-> error]

\* the amount an order's executed amount is measured against
target(side, sell, buy) == IF side = "Buy" THEN buy.amount ELSE sell.amount

\* the executed amount fits the order: at most the target of a partially
\* fillable order, exactly the target of a fill-or-kill order
valid_execution(partial, executed, amount) ==
    IF partial THEN executed <= amount ELSE executed = amount

\* competition::solution::trade::Fulfillment::new
FulfillmentNew(order, executed, fee) ==
    IF valid_execution(order.partial, executed, target(order.side, order.sell, order.buy))
    THEN Ok([kind |-> "Fulfillment", order |-> order, executed |-> executed, fee |-> fee])
    ELSE Err("invalid executed amount")

\* competition::solution::trade::Jit::new
JitNew(order, executed) ==
    IF valid_execution(order.partially_fillable, executed,
                       target(order.side, order.sell, order.buy))
    THEN Ok([kind |-> "Jit", order |-> order, executed |-> executed])
    ELSE Err("invalid executed amount")

traded_tokens(trades) ==
    UNION {{trades[i].order.sell.token, trades[i].order.buy.token} : i \in 1..Len(trades)}

\* a fulfilled order carries protocol fees and a price it is computed from is zero
protocol_fee_fails(trades, prices) ==
    \E i \in 1..Len(trades) :
        /\ trades[i].kind = "Fulfillment"
        /\ Len(trades[i].order.protocol_fees) > 0
        /\ \/ prices[trades[i].order.sell.token] = 0
           \/ prices[trades[i].order.buy.token] = 0

\* competition::Solution::new
SolutionNew(id, trades, prices, interactions, solver, score, weth, gas) ==
    IF ~(traded_tokens(trades) \subseteq DOMAIN prices)
    THEN Err("InvalidClearingPrices")
    ELSE IF protocol_fee_fails(trades, prices)
    THEN Err("ProtocolFee")
    ELSE Ok([id |-> id, trades |-> trades, prices |-> prices,
             interactions |-> interactions, solver |-> solver, score |-> score,
             weth |-> weth, gas |-> gas])

-----------------------------------------------------------------------------
(* Solutions::into_domain *)

InvalidOrderUid == "invalid order UID specified in fulfillment"
InvalidFulfillment == "invalid fulfillment: "
InvalidJit == "invalid JIT trade: "
InvalidLiquidityId == "invalid liquidity ID specified in interaction"
InvalidClearingPrices == "invalid clearing prices"
InvalidProtocolFee == "could not incorporate protocol fee: "

\* iter().find(predicate): the first element that satisfies it
find(s, P(_)) ==
    IF \E i \in 1..Len(s) : P(s[i])
    THEN Some(s[CHOOSE i \in 1..Len(s) : P(s[i]) /\ \A j \in 1..(i - 1) : ~P(s[j])])
    ELSE None

\* a faulty variant: the first order, whatever its uid
first_order(a, uid) == first(a.orders)
\* auction.orders().iter().find(|order| order.uid == fulfillment.order)
find_order(a, uid) == LET matches(order) == order.uid = uid IN find(a.orders, matches)

\* a faulty variant: the id taken for a position, any pool for an id out of range
nth_liquidity(pools, id) == IF id < Len(pools) THEN Some(pools[id + 1]) ELSE first(pools)
\* liquidity.iter().find(|liquidity| liquidity.id == interaction.id)
find_liquidity(pools, id) == LET matches(pool) == pool.id = id IN find(pools, matches)

\* the fee of a fulfillment: Dynamic(fee) or Static
fulfillment_fee(fee) ==
    IF IsSome(fee) THEN [kind |-> "Dynamic", amount |-> fee[1]]
    ELSE [kind |-> "Static"]

\* the Trade::Fulfillment arm
decode_fulfillment(fulfillment, a) ==
    LET order == find_order(a, fulfillment.order)
    IN  IF ~IsSome(order) THEN Err(InvalidOrderUid)
        ELSE LET built == FulfillmentNew(order[1], fulfillment.executed_amount,
                                         fulfillment_fee(fulfillment.fee))
             IN  IF built.ok THEN built ELSE Err(InvalidFulfillment)

\* a faulty variant: the signer read from the bytes of the payload
jit_signature_of_payload(order, solver) ==
    [scheme |-> order.signing_scheme, data |-> order.signature, signer |-> order.signature]
\* the signature of a JIT order: scheme and bytes of the payload, the solver as signer
jit_signature(order, solver) ==
    [scheme |-> order.signing_scheme, data |-> order.signature, signer |-> solver]

\* the Trade::Jit arm
decode_jit(jit, solver) ==
    LET built == JitNew([sell               |-> [amount |-> jit.order.sell_amount,
                                                 token  |-> jit.order.sell_token],
                         buy                |-> [amount |-> jit.order.buy_amount,
                                                 token  |-> jit.order.buy_token],
                         fee                |-> jit.order.fee_amount,
                         receiver           |-> jit.order.receiver,
                         valid_to           |-> jit.order.valid_to,
                         app_data           |-> jit.order.app_data,
                         side               |-> jit.order.kind,
                         partially_fillable |-> jit.order.partially_fillable,
                         sell_token_balance |-> jit.order.sell_token_balance,
                         buy_token_balance  |-> jit.order.buy_token_balance,
                         signature          |-> jit_signature(jit.order, solver)],
                        jit.executed_amount)
    IN  IF built.ok THEN built ELSE Err(InvalidJit)

decode_trade(trade, a, solver) ==
    IF trade.kind = "Fulfillment" THEN decode_fulfillment(trade, a)
    ELSE decode_jit(trade, solver)

\* the Interaction::Liquidity arm
decode_liquidity_interaction(interaction, pools) ==
    LET pool == find_liquidity(pools, interaction.id)
    IN  IF ~IsSome(pool) THEN Err(InvalidLiquidityId)
        ELSE Ok([kind        |-> "Liquidity",
                 liquidity   |-> pool[1],
                 input       |-> [amount |-> interaction.input_amount,
                                  token  |-> interaction.input_token],
                 output      |-> [amount |-> interaction.output_amount,
                                  token  |-> interaction.output_token],
                 internalize |-> interaction.internalize])

\* the Interaction::Custom arm
decode_custom_interaction(interaction) ==
    Ok([kind        |-> "Custom",
        target      |-> interaction.target,
        value       |-> interaction.value,
        call_data   |-> interaction.call_data,
        allowances  |-> interaction.allowances,
        inputs      |-> interaction.inputs,
        outputs     |-> interaction.outputs,
        internalize |-> interaction.internalize])

decode_interaction(interaction, pools) ==
    IF interaction.kind = "Liquidity"
    THEN decode_liquidity_interaction(interaction, pools)
    ELSE decode_custom_interaction(interaction)

\* try_collect() and collect() into a Result: the values of a sequence of
\* results when all are Ok, else the first Err in the order of the sequence
try_collect(results) ==
    IF \A i \in 1..Len(results) : results[i].ok
    THEN Ok([i \in 1..Len(results) |-> results[i].value])
    ELSE results[CHOOSE i \in 1..Len(results) :
                     /\ ~results[i].ok
                     /\ \A j \in 1..(i - 1) : results[j].ok]

\* a faulty variant: the cutoff itself included
ranks_by_surplus_from(a, date) == IsSome(date) /\ a.deadline.driver >= date[1]
\* rank_by_surplus_date.is_some_and(|date| auction.deadline().driver() > date)
ranks_by_surplus(a, date) == IsSome(date) /\ a.deadline.driver > date[1]

\* the score of the decoded solution
solver_score(score, a, date) ==
    IF ranks_by_surplus(a, date) THEN [kind |-> "Surplus"]
    ELSE IF score.kind = "Solver" THEN [kind |-> "Solver", score |-> score.score]
    ELSE [kind |-> "RiskAdjusted", success_probability |-> score.success_probability]

\* the map_err of Solution::new
solution_error(error) ==
    IF error = "InvalidClearingPrices" THEN InvalidClearingPrices
    ELSE InvalidProtocolFee

\* a faulty variant: the interactions collected before the trades
decode_solution_interactions_first(solution, a, pools, weth, solver, date) ==
    LET trades == try_collect([i \in 1..Len(solution.trades) |->
                                  decode_trade(solution.trades[i], a, solver)])
        interactions == try_collect([i \in 1..Len(solution.interactions) |->
                                  decode_interaction(solution.interactions[i], pools)])
    IN  IF ~interactions.ok THEN interactions
        ELSE IF ~trades.ok THEN trades
        ELSE LET built == SolutionNew(solution.id, trades.value, solution.prices,
                                      interactions.value, solver,
                                      solver_score(solution.score, a, date),
                                      weth, solution.gas)
             IN  IF built.ok THEN built ELSE Err(solution_error(built.error))

\* the closure of solutions.into_iter().map(..): one candidate solution
decode_solution(solution, a, pools, weth, solver, date) ==
    LET trades == try_collect([i \in 1..Len(solution.trades) |->
                                  decode_trade(solution.trades[i], a, solver)])
        interactions == try_collect([i \in 1..Len(solution.interactions) |->
                                  decode_interaction(solution.interactions[i], pools)])
    IN  IF ~trades.ok THEN trades
        ELSE IF ~interactions.ok THEN interactions
        ELSE LET built == SolutionNew(solution.id, trades.value, solution.prices,
                                      interactions.value, solver,
                                      solver_score(solution.score, a, date),
                                      weth, solution.gas)
             IN  IF built.ok THEN built ELSE Err(solution_error(built.error))

\* the values of the results that are Ok
RECURSIVE flatten(_)
flatten(results) ==
    IF Len(results) = 0 THEN <<>>
    ELSE IF results[1].ok THEN <<results[1].value>> \o flatten(Tail(results))
    ELSE flatten(Tail(results))

\* a faulty variant: the candidates that fail are dropped
IntoDomainBestEffort(solutions, a, pools, weth, solver, date) ==
    Ok(flatten([i \in 1..Len(solutions) |->
                   decode_solution(solutions[i], a, pools, weth, solver, date)]))

\* a faulty variant: the candidates decoded from the last to the first
IntoDomainReversed(solutions, a, pools, weth, solver, date) ==
    try_collect([i \in 1..Len(solutions) |->
                    decode_solution(solutions[Len(solutions) + 1 - i], a, pools, weth,
                                    solver, date)])

\* Solutions::into_domain
IntoDomain(solutions, a, pools, weth, solver, date) ==
    try_collect([i \in 1..Len(solutions) |->
                    decode_solution(solutions[i], a, pools, weth, solver, date)])

-----------------------------------------------------------------------------
(* The inputs *)

Asset(token, amount) == [token |-> token, amount |-> amount]

\* a competition::Order selling token 1 for token 2
Order(uid, side, sell_amount, buy_amount, partial, fees) ==
    [uid |-> uid, side |-> side, sell |-> Asset(1, sell_amount),
     buy |-> Asset(2, buy_amount), user_fee |-> 0, partial |-> partial,
     kind |-> "Limit", protocol_fees |-> fees]

TokenInfo(address, symbol) ==
    [address |-> address, decimals |-> Some(18), symbol |-> Some(symbol),
     price |-> Some(1), available_balance |-> 1, trusted |-> TRUE]

AuctionOf(orders, driver_deadline) ==
    [id |-> Some("1"), orders |-> orders,
     tokens |-> <<TokenInfo(1, "A"), TokenInfo(2, "B")>>,
     gas_price |-> 1, deadline |-> [driver |-> driver_deadline, solvers |-> 1]]

Pool(id, kind, reserves, fee) ==
    [id |-> id, kind |-> kind, address |-> id, gas |-> 1, reserves |-> reserves,
     liquidity_net |-> <<>>, fee |-> fee]

UniswapPool == Pool(0, "UniswapV2", <<Asset(2, 1), Asset(1, 2)>>, 0)
WeightedPool == Pool(1, "BalancerV2Weighted", <<Asset(3, 1), Asset(1, 1)>>, 1)
ZeroExPool == Pool(2, "ZeroEx", <<>>, 0)

\* the orders of the single-order auctions: every side, every pair of
\* available amounts, and no fee policy or any one policy
EncoderOrders ==
    {Order("a", side, sell, buy, partial, fees) :
        side \in Sides, sell \in U256, buy \in U256, partial \in BOOLEAN,
        fees \in SeqsUpTo(FeePolicies, 1)}

\* the orders of the auctions of several orders: small and largest amounts,
\* without a policy, with a volume policy and with another policy
BatchOrders ==
    {Order("a", side, sell, buy, FALSE, fees) :
        side \in Sides, sell \in {1, U256_MAX}, buy \in {1, U256_MAX},
        fees \in {<<>>, <<Volume(Factor(1, 2))>>, <<Surplus>>}}

\* the orders with several protocol fee policies: every list of up to MaxFees
\* policies, on either side, with small, middle and largest amounts
FeeOrders ==
    {Order("a", side, sell, buy, FALSE, fees) :
        side \in Sides, sell \in {1, 6, U256_MAX}, buy \in {1, 6, U256_MAX},
        fees \in SeqsUpTo(FeePolicies, MaxFees)}

\* the orders of every side, class, user fee and partial-fill flag, without a
\* policy and with any one policy
FrameOrders ==
    {[Order("a", side, sell, buy, partial, fees) EXCEPT !.user_fee = fee, !.kind = kind] :
        side \in Sides, sell \in {1, 6, U256_MAX}, buy \in {1, 6, U256_MAX},
        partial \in BOOLEAN, fees \in SeqsUpTo(FeePolicies, 1), fee \in {0, 1},
        kind \in {"Market", "Limit", "Liquidity"}}

Uids == <<"a", "b", "c", "d">>

\* the i-th order of an auction carries the i-th uid
WithUids(orders) == [i \in 1..Len(orders) |-> [orders[i] EXCEPT !.uid = Uids[i]]]

\* the reserves of a pool of two tokens: every ordered pair of distinct tokens
ReservePairs ==
    {<<Asset(t, 1), Asset(u, 2)>> : t \in Tokens, u \in Tokens} \
        {<<Asset(t, 1), Asset(t, 2)>> : t \in Tokens}

\* the pools of the liquidity sets: every kind, with its reserves in every
\* order, Swapr pools with several fees, and Balancer pools of three tokens
LiquidityPools ==
    {Pool(0, "UniswapV2", reserves, 0) : reserves \in ReservePairs}
        \cup {Pool(0, "Swapr", reserves, bps) :
                 reserves \in ReservePairs, bps \in {0, 3, 25}}
        \cup {[Pool(0, "UniswapV3", reserves, Factor(3, 1000))
                   EXCEPT !.liquidity_net = <<<<-1, 1>>, <<1, -1>>>>] :
                 reserves \in ReservePairs}
        \cup {Pool(0, kind, reserves, 2) :
                 kind \in {"BalancerV2Stable", "BalancerV2Weighted"},
                 reserves \in ReservePairs \cup {<<Asset(3, 1), Asset(1, 2), Asset(2, 3)>>}}
        \cup {ZeroExPool}

\* the i-th pool of a liquidity set carries the id i - 1
WithPoolIds(pools) ==
    [i \in 1..Len(pools) |-> [pools[i] EXCEPT !.id = i - 1, !.address = i - 1]]

\* the token metadata of the auctions: of no token, of some and of every token
TokenLists ==
    {<<>>, <<TokenInfo(1, "A"), TokenInfo(2, "B")>>,
     <<TokenInfo(3, "C"), TokenInfo(1, "A")>>}

EncoderLiquidity == {<<>>, <<UniswapPool, WeightedPool>>, <<UniswapPool, ZeroExPool>>}

\* the auction orders a response is decoded against: a fill-or-kill sell
\* order without protocol fees and a partially fillable buy order with one
OrderA == Order("a", "Sell", 2, 1, FALSE, <<>>)
OrderB == Order("b", "Buy", 2, 1, TRUE, <<Volume(Factor(1, 2))>>)

DecoderAuctions(deadlines) ==
    {AuctionOf(orders, d) : orders \in {<<OrderA>>, <<OrderA, OrderB>>}, d \in deadlines}

DecoderLiquidity == <<UniswapPool, WeightedPool>>

\* dto::Trade::Fulfillment
Fulfillment(uid, executed, fee) ==
    [kind |-> "Fulfillment", order |-> uid, executed_amount |-> executed, fee |-> fee]

\* dto::Trade::Jit: a fill-or-kill order selling 2 of token 3 for 1 of token 1
Jit(executed, scheme, signature) ==
    [kind |-> "Jit",
     order |-> [sell_token |-> 3, buy_token |-> 1, receiver |-> "receiver",
                sell_amount |-> 2, buy_amount |-> 1, valid_to |-> 1,
                app_data |-> "app", fee_amount |-> 0, kind |-> "Sell",
                partially_fillable |-> FALSE, sell_token_balance |-> "Erc20",
                buy_token_balance |-> "Erc20", signing_scheme |-> scheme,
                signature |-> signature],
     executed_amount |-> executed]

\* dto::SigningScheme
SigningSchemes == {"Eip712", "EthSign", "PreSign", "Eip1271"}

\* the signature bytes of a payload: of some signer, of the solver, and none
Signatures == {"other", SolverAddress, ""}

\* the JIT trades: every scheme and signature, executed in full and in part
JitTrades ==
    {Jit(executed, scheme, signature) :
        executed \in {1, 2}, scheme \in SigningSchemes, signature \in Signatures}

\* dto::Interaction::Liquidity
LiquidityInteraction(id) ==
    [kind |-> "Liquidity", internalize |-> (id = 0), id |-> id, input_token |-> 1,
     output_token |-> 2, input_amount |-> 1, output_amount |-> id + 1]

\* dto::Interaction::Custom
CustomInteraction ==
    [kind |-> "Custom", internalize |-> FALSE, target |-> "target", value |-> 0,
     call_data |-> "data",
     allowances |-> <<[token |-> 1, spender |-> "target", amount |-> 1]>>,
     inputs |-> <<Asset(1, 1)>>, outputs |-> <<Asset(2, 1)>>]

\* trades: of a known order, of an order some auctions hold, of an unknown
\* order, with an executed amount that does not fit, and JIT trades
Trades ==
    {Fulfillment("a", 2, None), Fulfillment("b", 1, Some(1)), Fulfillment("c", 1, None),
     Fulfillment("a", 1, None), Jit(2, "Eip712", "sig"), Jit(1, "PreSign", "other")}

TradeLists ==
    SeqsUpTo(Trades, 1) \cup {<<Fulfillment("a", 2, None), Fulfillment("c", 1, None)>>}

\* trade lists with up to two defects of different kinds, in either order
DefectTradeLists ==
    {<<>>,
     <<Fulfillment("a", 2, None)>>,
     <<Fulfillment("b", 1, Some(1))>>,
     <<Jit(2, "Eip712", "sig")>>,
     <<Fulfillment("c", 1, None)>>,
     <<Fulfillment("a", 1, None), Fulfillment("c", 1, None)>>,
     <<Fulfillment("c", 1, None), Fulfillment("a", 1, None)>>,
     <<Jit(1, "Eip712", "sig"), Fulfillment("c", 1, None)>>}

\* interactions: with a pool of the round, with an unknown pool, and custom
Interactions == {LiquidityInteraction(1), LiquidityInteraction(2), CustomInteraction}

InteractionLists == SeqsUpTo(Interactions, 1)

\* interaction lists without a defect and with one, in first and second place
DefectInteractionLists ==
    {<<>>, <<LiquidityInteraction(1)>>, <<LiquidityInteraction(2)>>,
     <<CustomInteraction, LiquidityInteraction(2)>>}

\* clearing prices: of every token, and with a zero price and without token 3
PriceMaps == {[t \in Tokens |-> 1], [t \in {1, 2} |-> t - 1]}

SolverScoreOf(score) == [kind |-> "Solver", score |-> score]
RiskAdjusted(probability) == [kind |-> "RiskAdjusted", success_probability |-> probability]

\* dto::Solution
Candidates(ids, trade_lists, interaction_lists, price_maps, scores) ==
    {[id |-> id, prices |-> prices, trades |-> trades, interactions |-> interactions,
      score |-> score, gas |-> None] :
        id \in ids, trades \in trade_lists, interactions \in interaction_lists,
        prices \in price_maps, score \in scores}

\* the i-th candidate of a response carries the id i
WithIds(solutions) == [i \in 1..Len(solutions) |-> [solutions[i] EXCEPT !.id = i]]

NoAuction == AuctionOf(<<>>, 1)
NoResponse == [solutions |-> <<>>]

-----------------------------------------------------------------------------
(* The actions: one call of each function on the inputs of the round *)

Encode ==
    /\ encoded = None
    /\ encoded' = Some(AuctionNew(auction, liquidity, WETH))
    /\ UNCHANGED <<auction, liquidity, response, rank_by_surplus_date, decoded, wire>>

Decode ==
    /\ decoded = None
    /\ decoded' = Some(IntoDomain(response.solutions, auction, liquidity, WETH,
                                  SolverAddress, rank_by_surplus_date))
    /\ UNCHANGED <<auction, liquidity, response, rank_by_surplus_date, encoded, wire>>

\* one more encoding of the round, serialized: Auction::new builds a new token
\* map each time, and the serializer emits it in the order it iterates
Serialize ==
    /\ Len(wire) < MaxEncodings
    /\ LET snapshot == AuctionNew(auction, liquidity, WETH)
       IN  /\ ~snapshot.panicked
           /\ \E order \in Orderings(DOMAIN snapshot.tokens) :
                  wire' = Append(wire, to_json(snapshot, order))
    /\ UNCHANGED <<auction, liquidity, response, rank_by_surplus_date, encoded, decoded>>

Next == Encode \/ Decode \/ Serialize

\* a round of a small auction, encoded and decoded
Init ==
    /\ auction \in DecoderAuctions({2})
    /\ liquidity \in {DecoderLiquidity, <<UniswapPool, ZeroExPool>>}
    /\ \E n \in 0..1 :
          \E solutions \in [1..n -> Candidates({1}, TradeLists, InteractionLists,
                                               PriceMaps, {SolverScoreOf(1)})] :
              response = [solutions |-> WithIds(solutions)]
    /\ rank_by_surplus_date \in {None, Some(1)}
    /\ encoded = None
    /\ decoded = None
    /\ wire = <<>>

Spec == Init /\ [][Next]_vars

\* Auction::new on every auction of one order
InitOrder ==
    /\ \E order \in EncoderOrders : auction = AuctionOf(<<order>>, 1)
    /\ liquidity = <<UniswapPool, WeightedPool>>
    /\ response = NoResponse
    /\ rank_by_surplus_date = None
    /\ encoded = None
    /\ decoded = None
    /\ wire = <<>>

SpecOrder == InitOrder /\ [][Encode]_vars

\* Auction::new on the auctions of one order with a list of fee policies
InitFees ==
    /\ \E order \in FeeOrders : auction = AuctionOf(<<order>>, 1)
    /\ liquidity = <<UniswapPool, WeightedPool>>
    /\ response = NoResponse
    /\ rank_by_surplus_date = None
    /\ encoded = None
    /\ decoded = None
    /\ wire = <<>>

SpecFees == InitFees /\ [][Encode]_vars

\* Auction::new on every liquidity set of up to MaxPools pools
InitLiquidity ==
    /\ \E tokens \in TokenLists : \E orders \in {<<>>, <<OrderA, OrderB>>} :
          auction = [AuctionOf(orders, 1) EXCEPT !.tokens = tokens]
    /\ \E n \in 0..MaxPools :
          \E pools \in [1..n -> LiquidityPools] : liquidity = WithPoolIds(pools)
    /\ response = NoResponse
    /\ rank_by_surplus_date = None
    /\ encoded = None
    /\ decoded = None
    /\ wire = <<>>

SpecLiquidity == InitLiquidity /\ [][Encode]_vars

\* the encodings of a round, serialized
InitWire ==
    /\ \E tokens \in TokenLists : \E orders \in {<<>>, <<OrderA, OrderB>>} :
          auction = [AuctionOf(orders, 1) EXCEPT !.tokens = tokens]
    /\ \E n \in 0..1 :
          \E pools \in [1..n -> LiquidityPools] : liquidity = WithPoolIds(pools)
    /\ response = NoResponse
    /\ rank_by_surplus_date = None
    /\ encoded = None
    /\ decoded = None
    /\ wire = <<>>

SpecWire == InitWire /\ [][Serialize]_vars

\* Auction::new on the auctions of one order of every class and user fee
InitFrame ==
    /\ \E order \in FrameOrders : auction = AuctionOf(<<order>>, 1)
    /\ liquidity = <<UniswapPool, WeightedPool>>
    /\ response = NoResponse
    /\ rank_by_surplus_date = None
    /\ encoded = None
    /\ decoded = None
    /\ wire = <<>>

SpecFrame == InitFrame /\ [][Encode]_vars

\* Auction::new on the auctions of up to MaxOrders orders
InitEncode ==
    /\ \E n \in 0..MaxOrders :
          \E orders \in [1..n -> BatchOrders] :
              auction = AuctionOf(WithUids(orders), 1)
    /\ liquidity \in EncoderLiquidity
    /\ response = NoResponse
    /\ rank_by_surplus_date = None
    /\ encoded = None
    /\ decoded = None
    /\ wire = <<>>

SpecEncode == InitEncode /\ [][Encode]_vars

\* Solutions::into_domain on every response of the decoder's bounds
InitDecode ==
    /\ auction \in DecoderAuctions({2})
    /\ liquidity = DecoderLiquidity
    /\ \E n \in 0..MaxSolutions :
          \E solutions \in [1..n -> Candidates({1}, TradeLists, InteractionLists,
                                               PriceMaps, {SolverScoreOf(1)})] :
              response = [solutions |-> WithIds(solutions)]
    /\ rank_by_surplus_date = None
    /\ encoded = None
    /\ decoded = None
    /\ wire = <<>>

SpecDecode == InitDecode /\ [][Decode]_vars

\* Solutions::into_domain on the responses of one candidate of JIT trades
InitJit ==
    /\ auction \in DecoderAuctions({2})
    /\ liquidity = DecoderLiquidity
    /\ \E n \in 0..1 :
          \E solutions \in [1..n -> Candidates({1}, SeqsUpTo(JitTrades, 2), {<<>>},
                                               {[t \in Tokens |-> 1]},
                                               {SolverScoreOf(1)})] :
              response = [solutions |-> WithIds(solutions)]
    /\ rank_by_surplus_date = None
    /\ encoded = None
    /\ decoded = None
    /\ wire = <<>>

SpecJit == InitJit /\ [][Decode]_vars

\* Solutions::into_domain on the responses with several defects
InitDefects ==
    /\ auction = AuctionOf(<<OrderA, OrderB>>, 2)
    /\ liquidity = DecoderLiquidity
    /\ \E n \in 0..MaxSolutions :
          \E solutions \in [1..n -> Candidates({1}, DefectTradeLists,
                                               DefectInteractionLists, PriceMaps,
                                               {SolverScoreOf(1)})] :
              response = [solutions |-> WithIds(solutions)]
    /\ rank_by_surplus_date = None
    /\ encoded = None
    /\ decoded = None
    /\ wire = <<>>

SpecDefects == InitDefects /\ [][Decode]_vars

\* the score of a response's solution, for every deadline and cutoff
InitScore ==
    /\ auction \in DecoderAuctions({1, 2, 3})
    /\ liquidity = DecoderLiquidity
    /\ \E n \in 0..1 :
          \E solutions \in [1..n -> Candidates({1}, {<<>>, <<Fulfillment("a", 2, None)>>},
                                               {<<>>, <<LiquidityInteraction(1)>>},
                                               {[t \in Tokens |-> 1]},
                                               {SolverScoreOf(0), SolverScoreOf(1),
                                                RiskAdjusted("0.5"),
                                                RiskAdjusted("1.0")})] :
              response = [solutions |-> WithIds(solutions)]
    /\ rank_by_surplus_date \in {None} \cup {Some(t) : t \in {1, 2, 3}}
    /\ encoded = None
    /\ decoded = None
    /\ wire = <<>>

SpecScore == InitScore /\ [][Decode]_vars

-----------------------------------------------------------------------------
(* What the claims speak of *)

Solutions == response.solutions
Candidate(i) == Solutions[i]
Result == decoded[1]

AuctionUids == {auction.orders[i].uid : i \in 1..Len(auction.orders)}
LiquidityIds == {liquidity[i].id : i \in 1..Len(liquidity)}

\* the j-th trade of the i-th candidate is a fulfillment of an order the auction lacks
UnknownUid(i, j) ==
    /\ Candidate(i).trades[j].kind = "Fulfillment"
    /\ Candidate(i).trades[j].order \notin AuctionUids

\* the j-th interaction of the i-th candidate uses a pool the round lacks
UnknownLiquidity(i, j) ==
    /\ Candidate(i).interactions[j].kind = "Liquidity"
    /\ Candidate(i).interactions[j].id \notin LiquidityIds

TradesOf(i) == 1..Len(Candidate(i).trades)
InteractionsOf(i) == 1..Len(Candidate(i).interactions)

\* the candidate alone decodes
Decodes(i) ==
    decode_solution(Candidate(i), auction, liquidity, WETH, SolverAddress,
                    rank_by_surplus_date).ok

\* the j-th trade of the i-th candidate is the first thing of the response to fail
FirstFailingTrade(i, j) ==
    /\ \A k \in 1..(i - 1) : Decodes(k)
    /\ \A k \in 1..(j - 1) : decode_trade(Candidate(i).trades[k], auction, SolverAddress).ok

\* the j-th interaction of the i-th candidate is the first thing of the response to fail
FirstFailingInteraction(i, j) ==
    /\ \A k \in 1..(i - 1) : Decodes(k)
    /\ \A k \in TradesOf(i) : decode_trade(Candidate(i).trades[k], auction, SolverAddress).ok
    /\ \A k \in 1..(j - 1) : ~UnknownLiquidity(i, k)

-----------------------------------------------------------------------------
(* C1: a fulfillment of an order uid that the auction lacks makes            *)
(* into_domain fail, with the "invalid order UID" error when nothing before   *)
(* it fails; no response without such a fulfillment yields that error; and   *)
(* every fulfillment of a returned solution holds the auction's order with   *)
(* the uid the trade names.                                                  *)
C1_FulfillmentOrderResolved ==
    IsSome(decoded) =>
        /\ \A i \in 1..Len(Solutions) : \A j \in TradesOf(i) :
              UnknownUid(i, j) =>
                  /\ ~Result.ok
                  /\ FirstFailingTrade(i, j) => Result = Err(InvalidOrderUid)
        /\ (~Result.ok /\ Result.error = InvalidOrderUid) =>
              \E i \in 1..Len(Solutions) : \E j \in TradesOf(i) : UnknownUid(i, j)
        /\ Result.ok =>
              \A i \in 1..Len(Solutions) : \A j \in TradesOf(i) :
                  Candidate(i).trades[j].kind = "Fulfillment" =>
                      /\ Result.value[i].trades[j].kind = "Fulfillment"
                      /\ Result.value[i].trades[j].order.uid = Candidate(i).trades[j].order
                      /\ \E k \in 1..Len(auction.orders) :
                            Result.value[i].trades[j].order = auction.orders[k]

\* a response whose second candidate fulfills an unknown order has failed with
\* the uid error
C1_Witness ==
    /\ IsSome(decoded)
    /\ Len(Solutions) = 2
    /\ Decodes(1)
    /\ Len(Candidate(1).trades) = 1
    /\ Candidate(1).trades[1].kind = "Fulfillment"
    /\ \E j \in TradesOf(2) : UnknownUid(2, j)
    /\ Result = Err(InvalidOrderUid)

(* C2: a liquidity interaction with an id that the round's liquidity lacks   *)
(* makes into_domain fail, with the "invalid liquidity ID" error when nothing *)
(* before it fails; no response without such an interaction yields that      *)
(* error; and every liquidity interaction of a returned solution binds the   *)
(* whole pool of that id with the declared input, output and internalize.    *)
C2_LiquidityResolved ==
    IsSome(decoded) =>
        /\ \A i \in 1..Len(Solutions) : \A j \in InteractionsOf(i) :
              UnknownLiquidity(i, j) =>
                  /\ ~Result.ok
                  /\ FirstFailingInteraction(i, j) => Result = Err(InvalidLiquidityId)
        /\ (~Result.ok /\ Result.error = InvalidLiquidityId) =>
              \E i \in 1..Len(Solutions) : \E j \in InteractionsOf(i) :
                  UnknownLiquidity(i, j)
        /\ Result.ok =>
              \A i \in 1..Len(Solutions) : \A j \in InteractionsOf(i) :
                  LET given == Candidate(i).interactions[j]
                      bound == Result.value[i].interactions[j]
                  IN  given.kind = "Liquidity" =>
                          /\ bound.kind = "Liquidity"
                          /\ bound.liquidity.id = given.id
                          /\ \E k \in 1..Len(liquidity) : bound.liquidity = liquidity[k]
                          /\ bound.input = Asset(given.input_token, given.input_amount)
                          /\ bound.output = Asset(given.output_token, given.output_amount)
                          /\ bound.internalize = given.internalize

\* a returned solution binds the second pool of the round
C2_Witness ==
    /\ IsSome(decoded)
    /\ Result.ok
    /\ \E i \in 1..Len(Solutions) : \E j \in InteractionsOf(i) :
          /\ Candidate(i).interactions[j].kind = "Liquidity"
          /\ Result.value[i].interactions[j].liquidity = WeightedPool

(* C3: into_domain is all-or-nothing: when any candidate does not decode,   *)
(* it returns an error and no solution, wherever that candidate sits; it     *)
(* returns a list only when every candidate decodes, one solution each.      *)
C3_AllOrNothing ==
    IsSome(decoded) =>
        /\ (\E i \in 1..Len(Solutions) : ~Decodes(i)) =>
              /\ ~Result.ok
              /\ DOMAIN Result = {"ok", "error"}
        /\ Result.ok =>
              /\ \A i \in 1..Len(Solutions) : Decodes(i)
              /\ Len(Result.value) = Len(Solutions)

\* the last of several candidates does not decode, the others do, and the call failed
C3_Witness ==
    /\ IsSome(decoded)
    /\ Len(Solutions) = MaxSolutions
    /\ \A i \in 1..(MaxSolutions - 1) : Decodes(i)
    /\ ~Decodes(MaxSolutions)
    /\ ~Result.ok

(* C4: a returned list keeps the order of the response: its i-th solution    *)
(* is the decoding of the i-th candidate, with that candidate's id, prices,  *)
(* trades and interactions.                                                  *)
C4_OrderPreserved ==
    (IsSome(decoded) /\ Result.ok) =>
        \A i \in 1..Len(Solutions) :
            /\ Result.value[i].id = Candidate(i).id
            /\ Result.value[i].prices = Candidate(i).prices
            /\ Len(Result.value[i].trades) = Len(Candidate(i).trades)
            /\ \A j \in TradesOf(i) :
                  /\ Result.value[i].trades[j].kind = Candidate(i).trades[j].kind
                  /\ Result.value[i].trades[j].executed = Candidate(i).trades[j].executed_amount
            /\ Len(Result.value[i].interactions) = Len(Candidate(i).interactions)
            /\ \A j \in InteractionsOf(i) :
                  Result.value[i].interactions[j].kind = Candidate(i).interactions[j].kind
            /\ Result.value[i] =
                  decode_solution(Candidate(i), auction, liquidity, WETH, SolverAddress,
                                  rank_by_surplus_date).value

\* two candidates that differ were returned
C4_Witness ==
    /\ IsSome(decoded)
    /\ Result.ok
    /\ Len(Solutions) = 2
    /\ Candidate(1).trades # Candidate(2).trades
    /\ Candidate(1).interactions # Candidate(2).interactions
    /\ Candidate(1).prices # Candidate(2).prices

(* C5: the score of a decoded solution is the surplus score exactly when a   *)
(* cutoff is configured and the auction's driver deadline is strictly after  *)
(* it; otherwise it is the declared score, Solver(score) or                  *)
(* RiskAdjusted(success probability), whatever else the response holds.      *)
C5_ScoringPolicy ==
    (IsSome(decoded) /\ Result.ok) =>
        \A i \in 1..Len(Solutions) :
            LET forced == /\ rank_by_surplus_date # None
                          /\ auction.deadline.driver > rank_by_surplus_date[1]
                declared == Candidate(i).score
                score == Result.value[i].score
            IN  /\ (score.kind = "Surplus") <=> forced
                /\ forced => score = [kind |-> "Surplus"]
                /\ (~forced /\ declared.kind = "Solver") => score = SolverScoreOf(declared.score)
                /\ (~forced /\ declared.kind = "RiskAdjusted") =>
                      score = RiskAdjusted(declared.success_probability)

\* a declared score was kept because the deadline is the cutoff itself
C5_Witness ==
    /\ IsSome(decoded)
    /\ Result.ok
    /\ Len(Solutions) = 1
    /\ rank_by_surplus_date = Some(auction.deadline.driver)
    /\ Candidate(1).score = SolverScoreOf(1)
    /\ Result.value[1].score = SolverScoreOf(1)

-----------------------------------------------------------------------------
(* The fee adjustment of Auction::new *)

Snapshot == encoded[1]
Encoded == IsSome(encoded) /\ ~Snapshot.panicked

\* the i-th order's first protocol fee policy is a volume policy
HasVolumeFee(i) ==
    /\ Len(auction.orders[i].protocol_fees) > 0
    /\ auction.orders[i].protocol_fees[1].type = "Volume"

VolumeFactor(i) == auction.orders[i].protocol_fees[1].factor

\* floor(amount / (1 + f)) and floor(amount / (1 - f)) of a factor f = num/den
DividedByOnePlus(amount, f) == (amount * f.den) \div (f.den + f.num)
DividedByOneMinus(amount, f) == (amount * f.den) \div (f.den - f.num)

\* quotient is amount / divisor rounded down, divisor = over/f.den
IsQuotient(quotient, amount, f, over) ==
    /\ quotient * over <= amount * f.den
    /\ amount * f.den < (quotient + 1) * over

C7_SellDividesSellAmount ==
    Encoded =>
        \A i \in 1..Len(auction.orders) :
            HasVolumeFee(i) =>
                LET order == auction.orders[i]
                    shown == Snapshot.orders[i]
                    f == VolumeFactor(i)
                IN  IF order.side = "Sell"
                    THEN IsQuotient(shown.sell_amount, order.sell.amount, f, f.den + f.num)
                    ELSE \/ IsQuotient(shown.buy_amount, order.buy.amount, f, f.den - f.num)
                         \/ shown.buy_amount = 0

(* C7, amended: under a volume policy with factor f it is the Buy order      *)
(* whose sell amount is divided by (1+f) and the Sell order whose buy amount *)
(* is divided by (1-f) (zero when the quotient does not fit); the Buy        *)
(* order's buy amount and the Sell order's sell amount are left alone.       *)
C7_BuyDividesSellAmount ==
    Encoded =>
        \A i \in 1..Len(auction.orders) :
            HasVolumeFee(i) =>
                LET order == auction.orders[i]
                    shown == Snapshot.orders[i]
                    f == VolumeFactor(i)
                IN  IF order.side = "Buy"
                    THEN /\ IsQuotient(shown.sell_amount, order.sell.amount, f, f.den + f.num)
                         /\ shown.buy_amount = order.buy.amount
                    ELSE /\ \/ IsQuotient(shown.buy_amount, order.buy.amount, f, f.den - f.num)
                            \/ /\ shown.buy_amount = 0
                               /\ order.buy.amount * f.den > U256_MAX * (f.den - f.num)
                         /\ shown.sell_amount = order.sell.amount

\* a Buy order with a lowered sell amount and its own buy amount
C7_Witness ==
    /\ Encoded
    /\ HasVolumeFee(1)
    /\ auction.orders[1].side = "Buy"
    /\ VolumeFactor(1) = Factor(1, 2)
    /\ auction.orders[1].sell.amount = 9
    /\ auction.orders[1].buy.amount = 9
    /\ Snapshot.orders[1].sell_amount = 6
    /\ Snapshot.orders[1].buy_amount = 9

(* C8: under a volume policy with factor 0 the amounts shown are the         *)
(* order's available amounts, on either side and for every amount.           *)
C8_ZeroFactorIsIdentity ==
    Encoded =>
        \A i \in 1..Len(auction.orders) :
            (HasVolumeFee(i) /\ VolumeFactor(i).num = 0) =>
                /\ Snapshot.orders[i].sell_amount = auction.orders[i].sell.amount
                /\ Snapshot.orders[i].buy_amount = auction.orders[i].buy.amount

\* a Sell order of the largest amounts under a zero factor, shown unchanged
C8_Witness ==
    /\ Encoded
    /\ HasVolumeFee(1)
    /\ VolumeFactor(1) = Factor(0, 1)
    /\ auction.orders[1].side = "Sell"
    /\ auction.orders[1].sell.amount = U256_MAX
    /\ auction.orders[1].buy.amount = U256_MAX
    /\ Snapshot.orders[1].buy_amount = U256_MAX
    /\ Snapshot.orders[1].sell_amount = U256_MAX

\* the amount of an order that its side's adjustment changes
ShownAdjusted(shown) == IF shown.kind = "Buy" THEN shown.sell_amount ELSE shown.buy_amount

\* apply_factor yields no value for the i-th order
AdjustmentFails(i) ==
    /\ HasVolumeFee(i)
    /\ LET order == auction.orders[i]
           f == VolumeFactor(i)
       IN  IF order.side = "Buy"
           THEN order.sell.amount * f.den > U256_MAX * (f.den + f.num)
           ELSE order.buy.amount * f.den > U256_MAX * (f.den - f.num)

\* the auction with nothing to adjust in its i-th order
WithoutAdjusted(i) ==
    [auction EXCEPT !.orders[i].sell.amount = 0, !.orders[i].buy.amount = 0]

(* C9: when the adjustment of an order yields no value, the adjusted amount  *)
(* of that order is zero, the encode completes (it aborts for no reason but  *)
(* an unimplemented pool), and the amounts of every other order are those    *)
(* of the encode in which that order's adjustment succeeds.                  *)
C9_OverflowFallsBackToZero ==
    IsSome(encoded) =>
        /\ Snapshot.panicked => \E k \in 1..Len(liquidity) : liquidity[k].kind = "ZeroEx"
        /\ ~Snapshot.panicked =>
              \A i \in 1..Len(auction.orders) :
                  AdjustmentFails(i) =>
                      /\ ShownAdjusted(Snapshot.orders[i]) = 0
                      /\ Len(Snapshot.orders) = Len(auction.orders)
                      /\ \A j \in 1..Len(auction.orders) :
                            j # i =>
                                Snapshot.orders[j] =
                                    AuctionNew(WithoutAdjusted(i), liquidity, WETH).orders[j]

\* an auction whose first order's adjustment overflows and whose second
\* order's adjustment succeeds was encoded
C9_Witness ==
    /\ Encoded
    /\ Len(auction.orders) = 2
    /\ AdjustmentFails(1)
    /\ Snapshot.orders[1].buy_amount = 0
    /\ HasVolumeFee(2)
    /\ ~AdjustmentFails(2)
    /\ Snapshot.orders[2].sell_amount > 0
    /\ Snapshot.orders[2].sell_amount < auction.orders[2].sell.amount

(* C10: under a volume policy with 0 <= f < 1 the limits shown are never     *)
(* more permissive than the order's: a Sell order's shown buy amount is at   *)
(* least its buy amount and every executed buy amount B at or above the      *)
(* shown one has B*(1-f) >= buy amount; a Buy order's shown sell amount is   *)
(* at most its sell amount and every executed sell amount S at or below the  *)
(* shown one has S*(1+f) <= sell amount.                                     *)
C10_LimitsNeverMorePermissive ==
    Encoded =>
        \A i \in 1..Len(auction.orders) :
            HasVolumeFee(i) =>
                LET order == auction.orders[i]
                    shown == Snapshot.orders[i]
                    f == VolumeFactor(i)
                IN  IF order.side = "Sell"
                    THEN /\ shown.buy_amount >= order.buy.amount
                         /\ \A B \in shown.buy_amount..U256_MAX :
                               B * (f.den - f.num) >= order.buy.amount * f.den
                    ELSE /\ shown.sell_amount <= order.sell.amount
                         /\ \A S \in 0..shown.sell_amount :
                               S * (f.den + f.num) <= order.sell.amount * f.den

-----------------------------------------------------------------------------
(* C11: only the first protocol fee policy of an order takes part in the     *)
(* adjustment: an order without a policy, or whose first policy is not a     *)
(* volume policy, shows exactly its available sell and buy amounts, even     *)
(* when a later policy is a volume policy; and an order whose first policy   *)
(* is a volume policy shows the amounts that this policy's factor alone      *)
(* gives, whatever the policies after it.                                    *)
C11_OnlyFirstPolicy ==
    Encoded =>
        \A i \in 1..Len(auction.orders) :
            LET order == auction.orders[i]
                shown == Snapshot.orders[i]
                avail == available(order, WETH)
                raised == DividedByOneMinus(avail.buy.amount, VolumeFactor(i))
            IN  IF ~HasVolumeFee(i)
                THEN /\ shown.sell_amount = avail.sell.amount
                     /\ shown.buy_amount = avail.buy.amount
                ELSE IF order.side = "Buy"
                THEN /\ shown.sell_amount =
                            DividedByOnePlus(avail.sell.amount, VolumeFactor(i))
                     /\ shown.buy_amount = avail.buy.amount
                ELSE /\ shown.buy_amount = IF raised <= U256_MAX THEN raised ELSE 0
                     /\ shown.sell_amount = avail.sell.amount

\* a Buy order whose second policy is a volume policy, and not its first,
\* is shown with its own amounts
C11_Witness ==
    /\ Encoded
    /\ auction.orders[1].side = "Buy"
    /\ auction.orders[1].protocol_fees = <<Surplus, Volume(Factor(1, 2))>>
    /\ auction.orders[1].sell.amount = 6
    /\ Snapshot.orders[1].sell_amount = 6
    /\ Snapshot.orders[1].buy_amount = auction.orders[1].buy.amount

-----------------------------------------------------------------------------
(* The token map and the liquidity of Auction::new *)

\* the tokens of the reserves of the k-th pool of the round
ReserveTokens(k) == {liquidity[k].reserves[i].token : i \in 1..Len(liquidity[k].reserves)}

(* C12: whenever Auction::new returns, every token of the reserves of every  *)
(* pool of the liquidity set, of whatever kind, is a key of the encoded      *)
(* token map.                                                                *)
C12_PoolTokensInTokenMap ==
    Encoded =>
        \A k \in 1..Len(liquidity) :
            \A token \in ReserveTokens(k) : token \in DOMAIN Snapshot.tokens

\* a pool's second token, which the auction has no metadata of, is in the map
C12_Witness ==
    /\ Encoded
    /\ \E k \in 1..Len(liquidity) :
          /\ liquidity[k].kind = "UniswapV3"
          /\ liquidity[k].reserves[2].token = 3
          /\ \A i \in 1..Len(auction.tokens) : auction.tokens[i].address # 3
          /\ 3 \in DOMAIN Snapshot.tokens

(* C13: as the claim states it: for every auction and liquidity set          *)
(* Auction::new returns an Auction and never aborts.                         *)
C13_EncodingTotal ==
    IsSome(encoded) => ~Snapshot.panicked

\* the liquidity set holds a ZeroEx pool
HasZeroEx == \E k \in 1..Len(liquidity) : liquidity[k].kind = "ZeroEx"

(* C14: when the liquidity set holds a ZeroEx pool, at whatever position and *)
(* with whatever other pools, the encode aborts; an Auction it returns has   *)
(* one entry per pool of the set, so no pool is silently missing from it.    *)
C14_ZeroExAborts ==
    IsSome(encoded) =>
        /\ HasZeroEx => Snapshot = Panic
        /\ ~Snapshot.panicked =>
              /\ ~HasZeroEx
              /\ Len(Snapshot.liquidity) = Len(liquidity)
              /\ \A k \in 1..Len(liquidity) : Snapshot.liquidity[k].id = liquidity[k].id

\* the encode of a set whose last pool is a ZeroEx pool, after a pool that
\* encodes, has aborted
C14_Witness ==
    /\ IsSome(encoded)
    /\ Len(liquidity) = MaxPools
    /\ liquidity[MaxPools].kind = "ZeroEx"
    /\ \A k \in 1..(MaxPools - 1) : liquidity[k].kind # "ZeroEx"
    /\ Snapshot = Panic

\* 10 to the power n
RECURSIVE Pow10(_)
Pow10(n) == IF n = 0 THEN 1 ELSE 10 * Pow10(n - 1)

\* the decimal digits * 10^(-scale) is the fraction num / den
IsFraction(decimal, num, den) == decimal.digits * den = num * Pow10(decimal.scale)

(* C15: the fee of the encoded constant-product pool is exactly 3/1000 for   *)
(* every UniswapV2 pool, whatever the pool holds, and exactly bps/10000 for  *)
(* every Swapr pool, bps being the pool's own fee in basis points.           *)
C15_ConstantProductFee ==
    Encoded =>
        \A k \in 1..Len(liquidity) :
            /\ liquidity[k].kind = "UniswapV2" =>
                  /\ Snapshot.liquidity[k].kind = "ConstantProduct"
                  /\ IsFraction(Snapshot.liquidity[k].fee, 3, 1000)
            /\ liquidity[k].kind = "Swapr" =>
                  /\ Snapshot.liquidity[k].kind = "ConstantProduct"
                  /\ IsFraction(Snapshot.liquidity[k].fee, liquidity[k].fee, 10000)

\* a UniswapV2 pool and a Swapr pool of 25 basis points over the same
\* reserves were encoded with different fees
C15_Witness ==
    /\ Encoded
    /\ Len(liquidity) = 2
    /\ liquidity[1].kind = "UniswapV2"
    /\ liquidity[2].kind = "Swapr"
    /\ liquidity[2].fee = 25
    /\ liquidity[1].reserves = liquidity[2].reserves
    /\ Snapshot.liquidity[1].fee = [digits |-> 3, scale |-> 3]
    /\ Snapshot.liquidity[2].fee = [digits |-> 25, scale |-> 4]

(* C16: encoding the same auction and liquidity set any number of times      *)
(* yields the same serialized output each time, the order of the entries of  *)
(* the token map, of the reserve maps and of the tick map included.          *)
C16_EncodingDeterministic ==
    \A i, j \in 1..Len(wire) : wire[i] = wire[j]

-----------------------------------------------------------------------------
(* C17: the signature of the order of every JIT trade that into_domain       *)
(* returns has the responding solver's address as its signer, whatever the   *)
(* signature bytes and the signing scheme of the payload, and has the        *)
(* payload's bytes and scheme themselves.                                    *)
C17_JitSignerIsSolver ==
    (IsSome(decoded) /\ Result.ok) =>
        \A i \in 1..Len(Solutions) : \A j \in TradesOf(i) :
            LET given == Candidate(i).trades[j]
                built == Result.value[i].trades[j]
            IN  given.kind = "Jit" =>
                    /\ built.kind = "Jit"
                    /\ built.order.signature.signer = SolverAddress
                    /\ built.order.signature.data = given.order.signature
                    /\ built.order.signature.scheme = given.order.signing_scheme

\* two JIT trades of different schemes, with the bytes of another signer and
\* with no bytes, were returned with the solver as signer
C17_Witness ==
    /\ IsSome(decoded)
    /\ Result.ok
    /\ Len(Solutions) = 1
    /\ Len(Candidate(1).trades) = 2
    /\ Candidate(1).trades[1] = Jit(2, "PreSign", "")
    /\ Candidate(1).trades[2] = Jit(2, "Eip1271", "other")
    /\ Result.value[1].trades[1].order.signature =
           [scheme |-> "PreSign", data |-> "", signer |-> SolverAddress]
    /\ Result.value[1].trades[2].order.signature =
           [scheme |-> "Eip1271", data |-> "other", signer |-> SolverAddress]

-----------------------------------------------------------------------------
(* The token map and the reserve maps of Auction::new, continued *)

\* the auction's metadata of the token, when it has it
MetadataOf(token) == {info \in Range(auction.tokens) : info.address = token}

\* the tokens of the reserves of the pools of the round
AllReserveTokens == UNION {ReserveTokens(k) : k \in 1..Len(liquidity)}

(* C18: the encoded token map holds the tokens of the auction's metadata and *)
(* the tokens of the pools' reserves, and no other; a token of the metadata  *)
(* has the metadata's decimals, symbol, reference price, available balance   *)
(* and trusted flag, in a pool's reserves or not; a token of the reserves    *)
(* alone has no decimals, no symbol, no reference price, a zero balance and  *)
(* trusted = false.                                                          *)
C18_DefaultsOnlyForAbsentTokens ==
    Encoded =>
        /\ DOMAIN Snapshot.tokens =
               {info.address : info \in Range(auction.tokens)} \cup AllReserveTokens
        /\ \A token \in DOMAIN Snapshot.tokens :
              LET shown == Snapshot.tokens[token]
              IN  IF MetadataOf(token) # {}
                  THEN \E info \in MetadataOf(token) :
                          /\ shown.decimals = info.decimals
                          /\ shown.symbol = info.symbol
                          /\ shown.reference_price = info.price
                          /\ shown.available_balance = info.available_balance
                          /\ shown.trusted = info.trusted
                  ELSE /\ shown.decimals = None
                       /\ shown.symbol = None
                       /\ shown.reference_price = None
                       /\ shown.available_balance = 0
                       /\ shown.trusted = FALSE

\* a pool of a token of the metadata and of a token without metadata: the
\* first is shown with its metadata, the second with the default entry
C18_Witness ==
    /\ Encoded
    /\ auction.tokens = <<TokenInfo(1, "A"), TokenInfo(2, "B")>>
    /\ Len(liquidity) = 1
    /\ ReserveTokens(1) = {1, 3}
    /\ Snapshot.tokens[1].symbol = Some("A")
    /\ Snapshot.tokens[1].trusted
    /\ Snapshot.tokens[3].symbol = None
    /\ ~Snapshot.tokens[3].trusted
    /\ Snapshot.tokens[2].symbol = Some("B")

\* the entry of the reserve map for the i-th reserve of the pool
ReserveEntry(pool, i) == <<pool.reserves[i].token, [balance |-> pool.reserves[i].amount]>>

(* C19: the reserve map of an encoded constant-product pool (UniswapV2 or    *)
(* Swapr) lists the pool's reserves in ascending order of token address,     *)
(* whatever their order in the pool; the reserve map of an encoded weighted  *)
(* or stable pool lists them in the order of the pool's reserves.            *)
C19_ReserveMapOrder ==
    Encoded =>
        \A k \in 1..Len(liquidity) :
            LET pool == liquidity[k]
                shown == Snapshot.liquidity[k].tokens
            IN  /\ pool.kind \in {"UniswapV2", "Swapr"} =>
                      /\ Len(shown) = Len(pool.reserves)
                      /\ Range(shown) = {ReserveEntry(pool, i) : i \in 1..Len(pool.reserves)}
                      /\ \A i \in 1..(Len(shown) - 1) : shown[i][1] < shown[i + 1][1]
                /\ pool.kind \in {"BalancerV2Stable", "BalancerV2Weighted"} =>
                      /\ Len(shown) = Len(pool.reserves)
                      /\ \A i \in 1..Len(shown) : shown[i] = ReserveEntry(pool, i)

\* a UniswapV2 pool and a weighted pool, both with reserves in descending
\* order of address: the first is shown ascending, the second as it is
C19_Witness ==
    /\ Encoded
    /\ Len(liquidity) = 2
    /\ liquidity[1].kind = "UniswapV2"
    /\ liquidity[1].reserves = <<Asset(3, 1), Asset(2, 2)>>
    /\ liquidity[2].kind = "BalancerV2Weighted"
    /\ liquidity[2].reserves = <<Asset(3, 1), Asset(2, 2)>>
    /\ Snapshot.liquidity[1].tokens = <<<<2, [balance |-> 2]>>, <<3, [balance |-> 1]>>>>
    /\ Snapshot.liquidity[2].tokens = <<<<3, [balance |-> 1]>>, <<2, [balance |-> 2]>>>>

-----------------------------------------------------------------------------
\* the least number of a non-empty set of numbers
Least(S) == CHOOSE x \in S : \A y \in S : x <= y

\* the trades and the interactions of the i-th candidate that do not decode
FailingTrades(i) ==
    {j \in TradesOf(i) : ~decode_trade(Candidate(i).trades[j], auction, SolverAddress).ok}
FailingInteractions(i) ==
    {j \in InteractionsOf(i) : ~decode_interaction(Candidate(i).interactions[j], liquidity).ok}

\* the first defect of the i-th candidate, which does not decode: of its
\* first failing trade, else of its first failing interaction, else of the
\* construction of the solution
FirstDefect(i) ==
    IF FailingTrades(i) # {}
    THEN decode_trade(Candidate(i).trades[Least(FailingTrades(i))], auction,
                      SolverAddress).error
    ELSE IF FailingInteractions(i) # {}
    THEN decode_interaction(Candidate(i).interactions[Least(FailingInteractions(i))],
                            liquidity).error
    ELSE decode_solution(Candidate(i), auction, liquidity, WETH, SolverAddress,
                         rank_by_surplus_date).error

(* C20: the error of a response with several defects is the first one in the *)
(* order: candidates in the order of the response; within a candidate the    *)
(* trades in list order, then the interactions in list order, then the       *)
(* construction of the solution.  A first failing candidate with an unknown  *)
(* order uid as its first failing trade and an unknown liquidity id reports  *)
(* the order-uid error, and a defect of a later candidate is never reported  *)
(* ahead of one of an earlier candidate.                                     *)
C20_FirstErrorInOrder ==
    IsSome(decoded) =>
        LET failing == {i \in 1..Len(Solutions) : ~Decodes(i)}
        IN  failing # {} =>
                LET i == Least(failing)
                IN  /\ Result = Err(FirstDefect(i))
                    /\ (/\ FailingTrades(i) # {}
                        /\ UnknownUid(i, Least(FailingTrades(i)))
                        /\ \E j \in InteractionsOf(i) : UnknownLiquidity(i, j)) =>
                           Result = Err(InvalidOrderUid)
                    /\ (FailingTrades(i) = {} /\ FailingInteractions(i) # {}) =>
                           Result = Err(InvalidLiquidityId)
                    /\ (FailingTrades(i) = {} /\ FailingInteractions(i) = {}) =>
                           Result.error \in {InvalidClearingPrices, InvalidProtocolFee}

\* the first candidate has an unknown order uid and an unknown liquidity id,
\* the second has prices that its trade lacks, and the uid error is reported
C20_Witness ==
    /\ IsSome(decoded)
    /\ Len(Solutions) = 2
    /\ Len(Candidate(1).trades) > 0
    /\ UnknownUid(1, 1)
    /\ \E j \in InteractionsOf(1) : UnknownLiquidity(1, j)
    /\ ~Decodes(2)
    /\ FailingTrades(2) = {}
    /\ FailingInteractions(2) = {}
    /\ FirstDefect(2) = InvalidClearingPrices
    /\ Result = Err(InvalidOrderUid)

-----------------------------------------------------------------------------
(* C21: the encoded orders list has one entry per order of the auction, in   *)
(* the auction's order and with the order's uid, an order whose adjusted     *)
(* amount fell back to zero included; the encoded liquidity list has one     *)
(* entry per pool of the set, in the set's order and with the pool's id.     *)
C21_ListsIntact ==
    Encoded =>
        /\ Len(Snapshot.orders) = Len(auction.orders)
        /\ \A i \in 1..Len(auction.orders) :
              /\ Snapshot.orders[i].uid = auction.orders[i].uid
              /\ AdjustmentFails(i) => ShownAdjusted(Snapshot.orders[i]) = 0
        /\ Len(Snapshot.liquidity) = Len(liquidity)
        /\ \A k \in 1..Len(liquidity) : Snapshot.liquidity[k].id = liquidity[k].id

\* the first of two orders is shown with a zero buy amount, before the
\* second, and both pools are shown
C21_Witness ==
    /\ Encoded
    /\ Len(auction.orders) = 2
    /\ AdjustmentFails(1)
    /\ Len(Snapshot.orders) = 2
    /\ Snapshot.orders[1].uid = "a"
    /\ Snapshot.orders[1].buy_amount = 0
    /\ Snapshot.orders[2].uid = "b"
    /\ Len(liquidity) = 2
    /\ Snapshot.liquidity[1].id = 0
    /\ Snapshot.liquidity[2].id = 1

(* C22: the fee adjustment changes at most one amount of an order: a Buy     *)
(* order is shown with its available buy amount and a Sell order with its    *)
(* available sell amount; and the fee amount, uid, tokens, kind,             *)
(* partial-fill flag and class shown are those of the order, with or without *)
(* a fee policy.                                                             *)
C22_AdjustmentFrame ==
    Encoded =>
        \A i \in 1..Len(auction.orders) :
            LET order == auction.orders[i]
                shown == Snapshot.orders[i]
                avail == available(order, WETH)
            IN  /\ order.side = "Buy" => shown.buy_amount = avail.buy.amount
                /\ order.side = "Sell" => shown.sell_amount = avail.sell.amount
                /\ shown.fee_amount = avail.user_fee
                /\ shown.uid = order.uid
                /\ shown.sell_token = avail.sell.token
                /\ shown.buy_token = avail.buy.token
                /\ shown.kind = order.side
                /\ shown.partially_fillable = order.partial
                /\ shown.class = order.kind

\* a partially fillable Sell order of the Market class with a user fee, under
\* a volume policy: its buy amount is raised and the rest is its own
C22_Witness ==
    /\ Encoded
    /\ HasVolumeFee(1)
    /\ VolumeFactor(1) = Factor(1, 2)
    /\ auction.orders[1].side = "Sell"
    /\ auction.orders[1].kind = "Market"
    /\ auction.orders[1].partial
    /\ auction.orders[1].user_fee = 1
    /\ auction.orders[1].buy.amount = 6
    /\ Snapshot.orders[1].buy_amount = 12
    /\ Snapshot.orders[1].sell_amount = auction.orders[1].sell.amount
    /\ Snapshot.orders[1].fee_amount = 1
    /\ Snapshot.orders[1].class = "Market"
=============================================================================
